---- MODULE Spec2Model ----
(***************************************************************************)
(* A model of the RakNet packet protocol layer (src/raknet): the binary    *)
(* serializer, the address codec, the ACK/NACK range-compression codec,    *)
(* the packet framing contract and the handshake message catalog.          *)
(*                                                                         *)
(* Bytes are integers 0..255 and a buffer is a sequence of bytes.  A       *)
(* Python exception is an error name carried by the reader state or by     *)
(* the result of an operation: once it is set nothing further executes,    *)
(* and what was assigned before it stays assigned.                         *)
(***************************************************************************)
EXTENDS Integers, Sequences, FiniteSets, TLC

VARIABLES
    packets,  \* the list object bound to the class attribute AcknowledgePacket.packets
    wire,     \* the buffer of the serializer handed to encode / decode
    offset,   \* the read offset of that serializer after the last operation
    err,      \* the outcome of the last operation: "none" or the error raised
    op,       \* the last operation: [name, inst, arg]
    snd,      \* the object handed to the last encode / write
    rcv       \* the object filled by decode / returned by read

vars == <<packets, wire, offset, err, op, snd, rcv>>

(***************************************************************************)
(* Bounds of the model.                                                    *)
(***************************************************************************)
\* the longest sequence-number list a caller builds by appending
MaxLen == 4

----------------------------------------------------------------------------
(***************************************************************************)
(* General helpers.                                                        *)
(***************************************************************************)
Range(s) == {s[k] : k \in 1..Len(s)}

Min(a, b) == IF a < b THEN a ELSE b

RECURSIVE Concat(_)
Concat(ss) == IF ss = <<>> THEN <<>> ELSE Head(ss) \o Concat(Tail(ss))

Zeros(n) == [k \in 1..n |-> 0]

----------------------------------------------------------------------------
(***************************************************************************)
(* The binary field codec (BinaryStream of the external package `binary`), *)
(* by its contract: fixed-width unsigned integers, big-endian unless a     *)
(* call overrides the order, and BufferUnderrun when a read would exceed   *)
(* the remaining buffer.  A 64-bit value is four 16-bit limbs, most        *)
(* significant first.                                                      *)
(***************************************************************************)
Reader(buf) == [buf |-> buf, off |-> 0, err |-> "none"]

Ok(r) == r.err = "none"

\* advance the cursor over n bytes, or fail
Take(r, n) ==
    IF ~Ok(r) THEN r
    ELSE IF r.off + n > Len(r.buf) THEN [r EXCEPT !.err = "BufferUnderrun"]
    ELSE [r EXCEPT !.off = r.off + n]

\* n reads of one byte each: the cursor stops behind the last byte there is
TakeEach(r, n) ==
    IF ~Ok(r) THEN r
    ELSE IF r.off + n > Len(r.buf)
    THEN [r EXCEPT !.off = Len(r.buf), !.err = "BufferUnderrun"]
    ELSE [r EXCEPT !.off = r.off + n]

\* the n bytes at the cursor (meaningful when Take(r, n) is Ok)
Peek(r, n) == SubSeq(r.buf, r.off + 1, r.off + n)

feos(r) == r.off >= Len(r.buf)

write_byte(v) == <<v>>
read_byte(b) == b[1]

write_bool(v) == <<IF v THEN 1 ELSE 0>>
read_bool(b) == b[1] # 0

write_short(v) == <<v \div 256, v % 256>>
read_short(b) == b[1] * 256 + b[2]

write_short_le(v) == <<v % 256, v \div 256>>
read_short_le(b) == b[2] * 256 + b[1]

write_triad_le(v) == <<v % 256, (v \div 256) % 256, v \div 65536>>
read_triad_le(b) == b[1] + b[2] * 256 + b[3] * 65536

write_int(v) == <<v \div 16777216, (v \div 65536) % 256, (v \div 256) % 256, v % 256>>

write_long(l) == Concat([k \in 1..4 |-> write_short(l[k])])
read_long(b) == [k \in 1..4 |-> read_short(SubSeq(b, 2 * k - 1, 2 * k))]

----------------------------------------------------------------------------
(***************************************************************************)
(* Packet framing (packet.py, class Packet).                               *)
(***************************************************************************)
ACK_ID == 192
NACK_ID == 160

AckInst == {"ACK", "NACK"}

AckId(inst) == IF inst = "ACK" THEN ACK_ID ELSE NACK_ID

encode_header(id) == write_byte(id)

\* the second read_byte is the one inside the error message's f-string
decode_header(id, r) ==
    LET r1 == Take(r, 1)
    IN  IF ~Ok(r1) THEN r1
        ELSE IF read_byte(Peek(r, 1)) # id
             THEN LET r2 == Take(r1, 1)
                  IN  IF ~Ok(r2) THEN r2
                      ELSE [r2 EXCEPT !.err = "UnexpectedPacketId"]
        ELSE r1

----------------------------------------------------------------------------
(***************************************************************************)
(* The acknowledgment codec (packet.py, class AcknowledgePacket).          *)
(***************************************************************************)
RECORD_TYPE_RANGE == 0
RECORD_TYPE_SINGLE == 1
RANGE_CAP == 512
TOTAL_CAP == 4096

\* self.packets: neither ACK, NACK nor any method binds an instance attribute,
\* so the lookup on every instance yields the class-level list object
PacketsOf(inst) == packets

RECURSIVE Insert(_, _)
Insert(v, s) ==
    IF s = <<>> THEN <<v>>
    ELSE IF v <= Head(s) THEN <<v>> \o s
    ELSE <<Head(s)>> \o Insert(v, Tail(s))

RECURSIVE sort(_)
sort(s) == IF s = <<>> THEN <<>> ELSE Insert(Head(s), sort(Tail(s)))

\* one flushed record
WriteRecord(start, last) ==
    IF start = last
    THEN write_byte(RECORD_TYPE_SINGLE) \o write_triad_le(start)
    ELSE write_byte(RECORD_TYPE_RANGE) \o write_triad_le(start) \o write_triad_le(last)

IsNext(diff) == diff = 1

IsGap_any(diff) == diff # 1
IsGap(diff) == diff > 1

\* the while loop of encode_payload over the sorted list s (pointer is 0-based)
RECURSIVE EncodeLoop(_, _, _, _, _, _)
EncodeLoop(s, pointer, start, last, payload, records) ==
    IF ~(pointer < Len(s))
    THEN [payload |-> payload \o WriteRecord(start, last), records |-> records + 1]
    ELSE LET current == s[pointer + 1]
             diff == current - last
         IN  IF IsNext(diff)
             THEN EncodeLoop(s, pointer + 1, start, current, payload, records)
             ELSE IF IsGap(diff)
             THEN EncodeLoop(s, pointer + 1, current, current,
                             payload \o WriteRecord(start, last), records + 1)
             ELSE EncodeLoop(s, pointer + 1, start, last, payload, records)

\* encode_payload on the sorted list: the bytes written to __out
Ack_encode_payload(s) ==
    LET res == IF Len(s) > 0
               THEN EncodeLoop(s, 1, s[1], s[1], <<>>, 0)
               ELSE [payload |-> <<>>, records |-> 0]
    IN  write_short(res.records) \o res.payload

\* self.packets[count] = v: a list store, IndexError outside the list
Store_append(pk, idx, v) == [ok |-> TRUE, list |-> Append(pk, v)]
Store(pk, idx, v) ==
    IF idx < Len(pk)
    THEN [ok |-> TRUE, list |-> [pk EXCEPT ![idx + 1] = v]]
    ELSE [ok |-> FALSE, list |-> pk]

\* for j in range(lo, hi + 1): self.packets[count] = j; count += 1
\* (split in halves, left before right, stopping at the first failed store)
RECURSIVE StoreRange(_, _, _, _)
StoreRange(pk, count, lo, hi) ==
    IF lo > hi THEN [ok |-> TRUE, list |-> pk, count |-> count]
    ELSE IF lo = hi
    THEN LET st == Store(pk, count, lo)
         IN  [ok |-> st.ok, list |-> st.list,
              count |-> IF st.ok THEN count + 1 ELSE count]
    ELSE LET mid == (lo + hi) \div 2
             left == StoreRange(pk, count, lo, mid)
         IN  IF ~left.ok THEN left
             ELSE StoreRange(left.list, left.count, mid + 1, hi)

CapEnd(start, end) == IF (end - start) > RANGE_CAP THEN start + RANGE_CAP ELSE end

TwoTriads(tag) == tag = RECORD_TYPE_SINGLE

\* the while loop of decode_payload
RECURSIVE DecodeLoop(_, _, _, _, _)
DecodeLoop(r, pk, records, i, count) ==
    IF ~(i < records /\ ~feos(r) /\ count < TOTAL_CAP)
    THEN [rd |-> r, list |-> pk, count |-> count, i |-> i]
    ELSE LET r1 == Take(r, 1)
             tag == read_byte(Peek(r, 1))
         IN  IF TwoTriads(tag)
             THEN LET r2 == Take(r1, 3)
                      r3 == Take(r2, 3)
                  IN  IF ~Ok(r3)
                      THEN [rd |-> r3, list |-> pk, count |-> count, i |-> i]
                      ELSE LET start == read_triad_le(Peek(r1, 3))
                               end == CapEnd(start, read_triad_le(Peek(r2, 3)))
                               st == StoreRange(pk, count, start, end)
                           IN  IF ~st.ok
                               THEN [rd |-> [r3 EXCEPT !.err = "IndexError"],
                                     list |-> st.list, count |-> st.count, i |-> i]
                               ELSE DecodeLoop(r3, st.list, records, i + 1, st.count)
             ELSE LET r2 == Take(r1, 3)
                  IN  IF ~Ok(r2)
                      THEN [rd |-> r2, list |-> pk, count |-> count, i |-> i]
                      ELSE LET st == Store(pk, count, read_triad_le(Peek(r1, 3)))
                           IN  IF ~st.ok
                               THEN [rd |-> [r2 EXCEPT !.err = "IndexError"],
                                     list |-> st.list, count |-> count, i |-> i]
                               ELSE DecodeLoop(r2, st.list, records, i + 1, count + 1)

\* decode_payload: clear the list, read the record count, run the loop
Ack_decode_payload(r) ==
    LET r1 == Take(r, 2)
    IN  IF ~Ok(r1) THEN [rd |-> r1, list |-> <<>>, count |-> 0, i |-> 0]
        ELSE DecodeLoop(r1, <<>>, read_short(Peek(r, 2)), 0, 0)

----------------------------------------------------------------------------
(***************************************************************************)
(* Operations on the two acknowledgment packet instances.                  *)
(***************************************************************************)
NoOp == [name |-> "init", inst |-> "none", arg |-> <<>>]
NoObj == [type |-> "none"]

\* 24-bit sequence numbers a caller acknowledges
SeqVals == {1, 2, 3, 131328}

\* a caller adds a sequence number: inst.packets.append(v)
AckAppend(inst, v) ==
    /\ Len(PacketsOf(inst)) < MaxLen
    /\ packets' = Append(PacketsOf(inst), v)
    /\ op' = [name |-> "append", inst |-> inst, arg |-> <<v>>]
    /\ err' = "none"
    /\ UNCHANGED <<wire, offset, snd, rcv>>

\* Packet.encode into a fresh serializer
AckEncode(inst) ==
    /\ packets' = sort(PacketsOf(inst))
    /\ wire' = encode_header(AckId(inst)) \o Ack_encode_payload(packets')
    /\ op' = [name |-> "encode", inst |-> inst, arg |-> PacketsOf(inst)]
    /\ err' = "none"
    /\ offset' = 0
    /\ snd' = [type |-> inst, seqs |-> Range(PacketsOf(inst))]
    /\ UNCHANGED rcv

\* Packet.decode from a serializer wrapping the buffer
AckDecode(inst) ==
    LET h == decode_header(AckId(inst), Reader(wire))
    IN  /\ IF ~Ok(h)
           THEN /\ packets' = packets
                /\ offset' = h.off
                /\ err' = h.err
                /\ op' = [name |-> "decode", inst |-> inst, arg |-> <<0>>]
           ELSE LET d == Ack_decode_payload(h)
                IN  /\ packets' = d.list
                    /\ offset' = d.rd.off
                    /\ err' = d.rd.err
                    /\ op' = [name |-> "decode", inst |-> inst, arg |-> <<d.count>>]
        /\ UNCHANGED <<wire, snd, rcv>>

Init ==
    /\ packets = <<>>
    /\ wire = <<>>
    /\ offset = 0
    /\ err = "none"
    /\ op = NoOp
    /\ snd = NoObj
    /\ rcv = NoObj

Next ==
    \/ \E inst \in AckInst, v \in SeqVals : AckAppend(inst, v)
    \/ \E inst \in AckInst : AckEncode(inst)
    \/ \E inst \in AckInst : AckDecode(inst)

Spec == Init /\ [][Next]_vars

----------------------------------------------------------------------------
(***************************************************************************)
(* Text.  A Python str is a sequence of one-character strings; str(), int(),*)
(* split() and join() are computed on the characters.                      *)
(***************************************************************************)
Digits == <<"0", "1", "2", "3", "4", "5", "6", "7", "8", "9",
            "a", "b", "c", "d", "e", "f">>

DigitOf(c) == (CHOOSE d \in 1..16 : Digits[d] = c) - 1

\* str(n) for n >= 0
RECURSIVE str(_)
str(n) == IF n < 10 THEN <<Digits[n + 1]>> ELSE str(n \div 10) \o <<Digits[(n % 10) + 1]>>

\* int(s) for a string of decimal digits
RECURSIVE int(_)
int(s) == IF s = <<>> THEN 0 ELSE int(SubSeq(s, 1, Len(s) - 1)) * 10 + DigitOf(s[Len(s)])

\* "%x" % n
RECURSIVE hex(_)
hex(n) == IF n < 16 THEN <<Digits[n + 1]>> ELSE hex(n \div 16) \o <<Digits[(n % 16) + 1]>>

RECURSIVE unhex(_)
unhex(s) == IF s = <<>> THEN 0 ELSE unhex(SubSeq(s, 1, Len(s) - 1)) * 16 + DigitOf(s[Len(s)])

\* s.split(sep) for a one-character separator
RECURSIVE split(_, _)
split(s, sep) ==
    IF \A k \in 1..Len(s) : s[k] # sep THEN <<s>>
    ELSE LET k == CHOOSE i \in 1..Len(s) : s[i] = sep /\ \A j \in 1..(i - 1) : s[j] # sep
         IN  <<SubSeq(s, 1, k - 1)>> \o split(SubSeq(s, k + 1, Len(s)), sep)

\* sep.join(parts)
RECURSIVE join(_, _)
join(sep, parts) ==
    IF parts = <<>> THEN <<>>
    ELSE IF Len(parts) = 1 THEN parts[1]
    ELSE parts[1] \o <<sep>> \o join(sep, Tail(parts))

----------------------------------------------------------------------------
(***************************************************************************)
(* socket.inet_ntop / socket.inet_pton for AF_INET6 (the C library's       *)
(* text form: lower-case hex groups, the leftmost longest run of two or    *)
(* more zero groups written "::", a dotted quad for the IPv4-mapped and    *)
(* IPv4-compatible addresses).                                             *)
(***************************************************************************)
AF_INET6 == 10

Words(b) == [k \in 1..8 |-> b[2 * k - 1] * 256 + b[2 * k]]

WordBytes(ws) == Concat([k \in 1..Len(ws) |-> <<ws[k] \div 256, ws[k] % 256>>])

Quad(b) == join(".", [k \in 1..4 |-> str(b[k])])

\* the length of the run of zero groups that starts at group i
ZeroRun(w, i) ==
    CHOOSE n \in 0..(9 - i) :
        /\ \A k \in i..(i + n - 1) : w[k] = 0
        /\ (i + n > 8 \/ w[i + n] # 0)

\* the first group of the run written "::", or 0
BestRun(w) ==
    LET cands == {i \in 1..8 : ZeroRun(w, i) >= 2 /\ (i = 1 \/ w[i - 1] # 0)}
    IN  IF cands = {} THEN 0
        ELSE CHOOSE i \in cands : \A j \in cands :
                 \/ ZeroRun(w, i) > ZeroRun(w, j)
                 \/ (ZeroRun(w, i) = ZeroRun(w, j) /\ i <= j)

RECURSIVE NtopFrom(_, _, _, _)
NtopFrom(w, i, base, n) ==
    IF i > 8 THEN (IF base # 0 /\ base + n = 9 THEN <<":">> ELSE <<>>)
    ELSE IF base # 0 /\ i >= base /\ i < base + n
    THEN (IF i = base THEN <<":">> ELSE <<>>) \o NtopFrom(w, i + 1, base, n)
    ELSE (IF i # 1 THEN <<":">> ELSE <<>>) \o
         (IF i = 7 /\ base = 1 /\ (n = 6 \/ (n = 5 /\ w[6] = 65535))
          THEN Quad(WordBytes(<<w[7], w[8]>>))
          ELSE hex(w[i]) \o NtopFrom(w, i + 1, base, n))

inet_ntop(b) ==
    LET w == Words(b)
        base == BestRun(w)
    IN  NtopFrom(w, 1, base, IF base = 0 THEN 0 ELSE ZeroRun(w, base))

\* the 16-bit groups of a colon-separated text without "::"
GroupWords(t) ==
    IF t = <<>> THEN <<>>
    ELSE LET gs == split(t, ":")
             last == gs[Len(gs)]
             front == [k \in 1..(Len(gs) - 1) |-> unhex(gs[k])]
         IN  IF \E k \in 1..Len(last) : last[k] = "."
             THEN LET q == [k \in 1..4 |-> int(split(last, ".")[k])]
                  IN  front \o <<q[1] * 256 + q[2], q[3] * 256 + q[4]>>
             ELSE front \o <<unhex(last)>>

inet_pton(t) ==
    LET gaps == {k \in 1..(Len(t) - 1) : t[k] = ":" /\ t[k + 1] = ":"}
    IN  IF gaps = {} THEN WordBytes(GroupWords(t))
        ELSE LET g == CHOOSE k \in gaps : TRUE
                 left == GroupWords(SubSeq(t, 1, g - 1))
                 right == GroupWords(SubSeq(t, g + 2, Len(t)))
             IN  WordBytes(left \o Zeros(8 - Len(left) - Len(right)) \o right)

----------------------------------------------------------------------------
(***************************************************************************)
(* The address codec (packet.py, PacketSerializer; utils.py,               *)
(* InternetAddress).                                                       *)
(***************************************************************************)
InternetAddress(ip, port, version) == [ip |-> ip, port |-> port, version |-> version]

\* InternetAddress.__eq__
AddressEq(a, b) == a.ip = b.ip /\ a.port = b.port /\ a.version = b.version

\* ~x & 0xff
Complement(x) == (-(x + 1)) % 256

\* str(~self.read_byte() & 0xff)
ReadOctet_plain(b) == str(b)
ReadOctet(b) == str(Complement(b))

NoAddress == InternetAddress(<<>>, 0, 0)

V6Skip_short(k) == IF k = 2 THEN 0 ELSE 4
V6Skip(k) == 4

\* elif version == 6
IsV6_else(version) == version # 4
IsV6(version) == version = 6

\* read_address: [rd |-> the reader afterwards, addr |-> the address returned]
read_address(r) ==
    LET r1 == Take(r, 1)
        version == read_byte(Peek(r, 1))
    IN  IF ~Ok(r1) THEN [rd |-> r1, addr |-> NoAddress]
        ELSE IF version = 4
        THEN LET r2 == TakeEach(r1, 4)
                 r3 == Take(r2, 2)
             IN  IF ~Ok(r3) THEN [rd |-> r3, addr |-> NoAddress]
                 ELSE [rd |-> r3,
                       addr |-> InternetAddress(
                           join(".", [k \in 1..4 |-> ReadOctet(Peek(r1, 4)[k])]),
                           read_short(Peek(r2, 2)), version)]
        ELSE IF IsV6(version)
        THEN LET r2 == Take(r1, 2)
                 r3 == Take(r2, 2)
                 r4 == Take(r3, V6Skip(1))
                 r5 == Take(r4, 16)
                 r6 == Take(r5, V6Skip(2))
             IN  IF ~Ok(r6) THEN [rd |-> r6, addr |-> NoAddress]
                 ELSE [rd |-> r6,
                       addr |-> InternetAddress(inet_ntop(Peek(r4, 16)),
                                                read_short(Peek(r2, 2)), version)]
        ELSE [rd |-> [r1 EXCEPT !.err = "UnknownAddressVersion"], addr |-> NoAddress]

\* write_address: the bytes written
write_address(value) ==
    write_byte(value.version) \o
    (IF value.version = 4
     THEN LET network_ids == split(value.ip, ".")
          IN  Concat([k \in 1..Len(network_ids) |-> write_byte(Complement(int(network_ids[k])))])
              \o write_short(value.port)
     ELSE IF value.version = 6
     THEN write_short_le(AF_INET6) \o write_short(value.port) \o write_int(0)
          \o inet_pton(value.ip) \o write_int(0)
     ELSE <<>>)

\* the addresses a caller writes
Octets == {0, 10, 255}
Ports == {0, 19132, 65535}

V6Bytes ==
    { Zeros(16),
      Zeros(15) \o <<1>>,
      <<254, 128>> \o Zeros(13) \o <<1>>,
      <<32, 1, 13, 184>> \o Zeros(6) \o <<255, 0, 0, 66, 131, 41>>,
      Zeros(10) \o <<255, 255, 192, 168, 0, 1>>,
      Zeros(12) \o <<1, 2, 3, 4>>,
      <<0, 1, 0, 2, 0, 3, 0, 4, 0, 5, 0, 6, 0, 7, 0, 8>>,
      <<0, 1, 0, 0, 0, 0, 0, 2, 0, 0, 0, 0, 0, 0, 0, 3>>,
      <<0, 1>> \o Zeros(14),
      <<0, 1, 0, 0, 0, 2, 0, 3, 0, 4, 0, 5, 0, 6, 171, 205>> }

Addresses4 ==
    { InternetAddress(Quad(q), p, 4) : q \in [1..4 -> Octets], p \in Ports }

Addresses6 ==
    { InternetAddress(inet_ntop(b), p, 6) : b \in V6Bytes, p \in Ports }

\* buffers of a peer that start with some version byte
AddressBuffers ==
    { <<v>> \o Zeros(n) : v \in {0, 4, 5, 6, 7, 255}, n \in {0, 5, 6, 27, 28} }

\* the bytes of each of them
Written == [a \in Addresses4 \cup Addresses6 |-> write_address(a)]

WriteAddress(a) ==
    /\ snd' = a
    /\ wire' = Written[a]
    /\ offset' = 0
    /\ err' = "none"
    /\ rcv' = NoObj
    /\ op' = [name |-> "write_address", inst |-> "PacketSerializer", arg |-> <<>>]
    /\ UNCHANGED packets

ReceiveAddress(b) ==
    /\ snd' = NoObj
    /\ wire' = b
    /\ offset' = 0
    /\ err' = "none"
    /\ rcv' = NoObj
    /\ op' = [name |-> "receive", inst |-> "PacketSerializer", arg |-> <<>>]
    /\ UNCHANGED packets

ReadAddress ==
    LET res == read_address(Reader(wire))
    IN  /\ rcv' = IF Ok(res.rd) THEN res.addr ELSE NoObj
        /\ offset' = res.rd.off
        /\ err' = res.rd.err
        /\ op' = [name |-> "read_address", inst |-> "PacketSerializer", arg |-> <<>>]
        /\ UNCHANGED <<packets, wire, snd>>

NextAddr ==
    \/ \E a \in Addresses4 \cup Addresses6 : WriteAddress(a)
    \/ \E b \in AddressBuffers : ReceiveAddress(b)
    \/ ReadAddress

SpecAddr == Init /\ [][NextAddr]_vars

----------------------------------------------------------------------------
(***************************************************************************)
(* Packet objects.  An object is its class name and its instance           *)
(* dictionary f; an attribute that the instance has not been assigned is   *)
(* looked up on the class.                                                 *)
(***************************************************************************)
MAGIC == <<0, 255, 255, 0, 254, 254, 254, 254, 253, 253, 253, 253, 18, 52, 86, 120>>

DEFAULT_PROTOCOL_VERSION == 6

SYSTEM_ADDRESS_COUNT == 20

CONNECTED_PING == 0
UNCONNECTED_PING == 1
UNCONNECTED_PING_OPEN_CONNECTIONS == 2
CONNECTED_PONG == 3
OPEN_CONNECTION_REQUEST_ONE == 5
OPEN_CONNECTION_REPLY_ONE == 6
OPEN_CONNECTION_REQUEST_TWO == 7
OPEN_CONNECTION_REPLY_TWO == 8
CONNECTION_REQUEST == 9
CONNECTION_REQUEST_ACCEPTED == 16
NEW_INCOMING_CONNECTION == 19
DISCONNECT_NOTIFICATION == 21
INCOMPATIBLE_PROTOCOL_VERSION == 25
UNCONNECTED_PONG == 28
ADVERTISE_SYSTEM == 29

\* the class attribute ID; UnconnectedPingOpenConnections only annotates ID
\* and so inherits the one of UnconnectedPing
PacketId(type) ==
    CASE type = "ACK" -> ACK_ID
      [] type = "NACK" -> NACK_ID
      [] type = "AdvertiseSystem" -> ADVERTISE_SYSTEM
      [] type = "ConnectedPing" -> CONNECTED_PING
      [] type = "ConnectedPong" -> CONNECTED_PONG
      [] type = "ConnectionRequest" -> CONNECTION_REQUEST
      [] type = "ConnectionRequestAccepted" -> CONNECTION_REQUEST_ACCEPTED
      [] type = "DisconnectNotification" -> DISCONNECT_NOTIFICATION
      [] type = "IncompatibleProtocolVersion" -> INCOMPATIBLE_PROTOCOL_VERSION
      [] type = "NewIncomingConnection" -> NEW_INCOMING_CONNECTION
      [] type = "OpenConnectionReplyOne" -> OPEN_CONNECTION_REPLY_ONE
      [] type = "OpenConnectionReplyTwo" -> OPEN_CONNECTION_REPLY_TWO
      [] type = "OpenConnectionRequestOne" -> OPEN_CONNECTION_REQUEST_ONE
      [] type = "OpenConnectionRequestTwo" -> OPEN_CONNECTION_REQUEST_TWO
      [] type = "UnconnectedPing" -> UNCONNECTED_PING
      [] type = "UnconnectedPingOpenConnections" -> UNCONNECTED_PING
      [] type = "UnconnectedPong" -> UNCONNECTED_PONG

\* the concrete classes of protocol.py
ConcreteTypes ==
    {"ACK", "NACK", "AdvertiseSystem", "ConnectedPing", "ConnectedPong", "ConnectionRequest",
     "ConnectionRequestAccepted", "DisconnectNotification", "IncompatibleProtocolVersion",
     "NewIncomingConnection", "OpenConnectionReplyOne", "OpenConnectionReplyTwo",
     "OpenConnectionRequestOne", "OpenConnectionRequestTwo", "UnconnectedPing",
     "UnconnectedPingOpenConnections", "UnconnectedPong"}

OfflineTypes ==
    {"IncompatibleProtocolVersion", "OpenConnectionReplyOne", "OpenConnectionReplyTwo",
     "OpenConnectionRequestOne", "OpenConnectionRequestTwo", "UnconnectedPing",
     "UnconnectedPingOpenConnections", "UnconnectedPong"}

\* ConnectionRequestAccepted.__init__ appends to self.system_address, which
\* neither the instance nor the class has: the constructor raises
Constructible(type) == type # "ConnectionRequestAccepted"

\* cls()
New(type) == [type |-> type, f |-> <<>>]

\* self.name = v
SetAttr(p, name, v) ==
    [p EXCEPT !.f = [n \in (DOMAIN p.f) \cup {name} |-> IF n = name THEN v ELSE p.f[n]]]

\* the class attributes with a value: OfflinePacket.magic and
\* OpenConnectionRequestOne.protocol
ClassAttr(type, name) ==
    CASE name = "magic" /\ type \in OfflineTypes -> MAGIC
      [] name = "protocol" /\ type = "OpenConnectionRequestOne" -> DEFAULT_PROTOCOL_VERSION

\* self.name: the instance attribute, else the class attribute
GetAttr(p, name) ==
    IF name \in DOMAIN p.f THEN p.f[name] ELSE ClassAttr(p.type, name)

is_valid(p) == GetAttr(p, "magic") = MAGIC

----------------------------------------------------------------------------
(***************************************************************************)
(* The handshake message catalog (protocol.py).  The payload of a class is *)
(* the sequence of its writes (encode_payload) and the sequence of its     *)
(* reads (decode_payload), each <<attribute, kind of field>>.              *)
(***************************************************************************)
AdvertiseSystem_encode_payload == <<<<"response", "string">>>>
AdvertiseSystem_decode_payload == <<<<"response", "string">>>>

ConnectedPing_encode_payload == <<<<"send_time", "long">>>>
ConnectedPing_decode_payload == <<<<"send_time", "long">>>>

ConnectedPong_encode_payload == <<<<"send_time", "long">>, <<"receive_time", "long">>>>
ConnectedPong_decode_swapped == <<<<"receive_time", "long">>, <<"send_time", "long">>>>
ConnectedPong_decode_payload == <<<<"send_time", "long">>, <<"receive_time", "long">>>>

ConnectionRequest_encode_payload ==
    <<<<"client_id", "long">>, <<"send_time", "long">>, <<"use_security", "bool">>>>
ConnectionRequest_decode_payload ==
    <<<<"client_id", "long">>, <<"send_time", "long">>, <<"use_security", "bool">>>>

DisconnectNotification_encode_payload == <<>>
DisconnectNotification_decode_payload == <<>>

IncompatibleProtocolVersion_encode_payload ==
    <<<<"protocol", "byte">>, <<"magic", "magic">>, <<"server_id", "long">>>>
IncompatibleProtocolVersion_decode_payload ==
    <<<<"protocol", "byte">>, <<"magic", "magic">>, <<"server_id", "long">>>>

OpenConnectionReplyOne_encode_payload ==
    <<<<"magic", "magic">>, <<"server_id", "long">>, <<"use_security", "bool">>,
      <<"mtu_size", "short">>>>
OpenConnectionReplyOne_decode_payload ==
    <<<<"magic", "magic">>, <<"server_id", "long">>, <<"use_security", "bool">>,
      <<"mtu_size", "short">>>>

OpenConnectionReplyTwo_encode_payload ==
    <<<<"magic", "magic">>, <<"server_id", "long">>, <<"client_address", "address">>,
      <<"mtu_size", "short">>, <<"use_security", "bool">>>>
OpenConnectionReplyTwo_decode_payload ==
    <<<<"magic", "magic">>, <<"server_id", "long">>, <<"client_address", "address">>,
      <<"mtu_size", "short">>, <<"use_security", "bool">>>>

OpenConnectionRequestOne_encode_payload ==
    <<<<"magic", "magic">>, <<"protocol", "byte">>, <<"mtu_size", "pad">>>>
OpenConnectionRequestOne_decode_payload ==
    <<<<"magic", "magic">>, <<"protocol", "short">>, <<"mtu_size", "rest">>>>

OpenConnectionRequestTwo_encode_payload ==
    <<<<"magic", "magic">>, <<"server_address", "address">>, <<"mtu_size", "short">>,
      <<"client_id", "long">>>>
OpenConnectionRequestTwo_decode_payload ==
    <<<<"magic", "magic">>, <<"server_address", "address">>, <<"mtu_size", "short">>,
      <<"client_id", "long">>>>

UnconnectedPing_encode_payload ==
    <<<<"send_time", "long">>, <<"magic", "magic">>, <<"client_id", "byte">>>>
UnconnectedPing_decode_payload ==
    <<<<"send_time", "long">>, <<"magic", "magic">>, <<"client_id", "short">>>>

UnconnectedPong_encode_payload ==
    <<<<"send_time", "long">>, <<"server_id", "long">>, <<"magic", "magic">>,
      <<"response", "string">>>>
UnconnectedPong_decode_payload ==
    <<<<"send_time", "long">>, <<"server_id", "long">>, <<"magic", "magic">>,
      <<"response", "string">>>>

\* ConnectionRequestAccepted writes twenty dummies whatever its list holds,
\* and skips the short behind the address when it reads
ConnectionRequestAccepted_encode_payload ==
    <<<<"address", "address">>, <<"", "zero_short">>, <<"", "dummies">>,
      <<"send_time", "long">>, <<"receive_time", "long">>>>
ConnectionRequestAccepted_decode_payload ==
    <<<<"address", "address">>, <<"", "skip_short">>, <<"system_address", "table_lookup_first">>,
      <<"send_time", "long">>, <<"receive_time", "long">>>>

NewIncomingConnection_encode_payload ==
    <<<<"address", "address">>, <<"system_address", "addresses">>,
      <<"send_time", "long">>, <<"receive_time", "long">>>>
NewIncomingConnection_decode_payload ==
    <<<<"address", "address">>, <<"system_address", "table_value_first">>,
      <<"send_time", "long">>, <<"receive_time", "long">>>>

\* method resolution: UnconnectedPingOpenConnections inherits both methods
encode_payload(type) ==
    CASE type = "AdvertiseSystem" -> AdvertiseSystem_encode_payload
      [] type = "ConnectedPing" -> ConnectedPing_encode_payload
      [] type = "ConnectedPong" -> ConnectedPong_encode_payload
      [] type = "ConnectionRequest" -> ConnectionRequest_encode_payload
      [] type = "ConnectionRequestAccepted" -> ConnectionRequestAccepted_encode_payload
      [] type = "NewIncomingConnection" -> NewIncomingConnection_encode_payload
      [] type = "DisconnectNotification" -> DisconnectNotification_encode_payload
      [] type = "IncompatibleProtocolVersion" -> IncompatibleProtocolVersion_encode_payload
      [] type = "OpenConnectionReplyOne" -> OpenConnectionReplyOne_encode_payload
      [] type = "OpenConnectionReplyTwo" -> OpenConnectionReplyTwo_encode_payload
      [] type = "OpenConnectionRequestOne" -> OpenConnectionRequestOne_encode_payload
      [] type = "OpenConnectionRequestTwo" -> OpenConnectionRequestTwo_encode_payload
      [] type = "UnconnectedPing" -> UnconnectedPing_encode_payload
      [] type = "UnconnectedPingOpenConnections" -> UnconnectedPing_encode_payload
      [] type = "UnconnectedPong" -> UnconnectedPong_encode_payload

decode_payload(type) ==
    CASE type = "AdvertiseSystem" -> AdvertiseSystem_decode_payload
      [] type = "ConnectedPing" -> ConnectedPing_decode_payload
      [] type = "ConnectedPong" -> ConnectedPong_decode_payload
      [] type = "ConnectionRequest" -> ConnectionRequest_decode_payload
      [] type = "ConnectionRequestAccepted" -> ConnectionRequestAccepted_decode_payload
      [] type = "NewIncomingConnection" -> NewIncomingConnection_decode_payload
      [] type = "DisconnectNotification" -> DisconnectNotification_decode_payload
      [] type = "IncompatibleProtocolVersion" -> IncompatibleProtocolVersion_decode_payload
      [] type = "OpenConnectionReplyOne" -> OpenConnectionReplyOne_decode_payload
      [] type = "OpenConnectionReplyTwo" -> OpenConnectionReplyTwo_decode_payload
      [] type = "OpenConnectionRequestOne" -> OpenConnectionRequestOne_decode_payload
      [] type = "OpenConnectionRequestTwo" -> OpenConnectionRequestTwo_decode_payload
      [] type = "UnconnectedPing" -> UnconnectedPing_decode_payload
      [] type = "UnconnectedPingOpenConnections" -> UnconnectedPing_decode_payload
      [] type = "UnconnectedPong" -> UnconnectedPong_decode_payload

\* the characters of the responses, with their ASCII codes
Alphabet == {"M", "C", "P", "E", ";"}

ord(c) ==
    CASE c = "M" -> 77 [] c = "C" -> 67 [] c = "P" -> 80 [] c = "E" -> 69 [] c = ";" -> 59

chr(n) == CHOOSE c \in Alphabet : ord(c) = n

\* PacketSerializer.write_string
write_string(value) ==
    write_short(Len(value)) \o [k \in 1..Len(value) |-> ord(value[k])]

\* the padding length of OpenConnectionRequestOne
MTU_OVERHEAD == 46

\* b'\x00' * length is empty for a negative length
Padding(mtu_size) ==
    LET length == mtu_size - MTU_OVERHEAD
    IN  Zeros(IF length > 0 THEN length ELSE 0)

\* dummy = InternetAddress('0.0.0.0', 0, 4)
Dummy == InternetAddress(Quad(<<0, 0, 0, 0>>), 0, 4)

\* one write of encode_payload
WriteField(p, fld) ==
    LET v == GetAttr(p, fld[1])
        kind == fld[2]
    IN  CASE kind = "byte" -> write_byte(v)
          [] kind = "short" -> write_short(v)
          [] kind = "long" -> write_long(v)
          [] kind = "bool" -> write_bool(v)
          [] kind = "magic" -> v
          [] kind = "address" -> write_address(v)
          [] kind = "string" -> write_string(v)
          [] kind = "pad" -> Padding(v)
          [] kind = "zero_short" -> write_short(0)
          [] kind = "dummies" -> Concat([k \in 1..SYSTEM_ADDRESS_COUNT |-> write_address(Dummy)])
          [] kind = "addresses" -> Concat([k \in 1..Len(v) |-> write_address(v[k])])

\* Packet.encode: the bytes written to a fresh serializer
encode(p) ==
    encode_header(PacketId(p.type)) \o
    Concat([k \in 1..Len(encode_payload(p.type)) |-> WriteField(p, encode_payload(p.type)[k])])

FixedWidth(kind) ==
    CASE kind = "byte" -> 1 [] kind = "bool" -> 1 [] kind = "short" -> 2
      [] kind = "long" -> 8 [] kind = "magic" -> 16

\* the dummy stands in once no more than 16 bytes remain: the test of
\* ConnectionRequestAccepted is (offset + 16) < length for a read, the one of
\* NewIncomingConnection is offset >= length - 16 for the dummy
ReadsAddress(r) == (r.off + 16) < Len(r.buf)
UsesDummy(r) == r.off >= Len(r.buf) - 16

\* the remaining passes of `for i in range(SYSTEM_ADDRESS_COUNT)` from pass i
\* on: self.system_address.append(value).  The list is the attribute the
\* instance has, and neither class gives it one; ConnectionRequestAccepted
\* looks the list up before it reads the value, NewIncomingConnection after.
RECURSIVE TableLoop(_, _, _, _)
TableLoop(p, r, kind, i) ==
    IF i >= SYSTEM_ADDRESS_COUNT THEN [pkt |-> p, rd |-> r]
    ELSE LET has == "system_address" \in DOMAIN p.f
             reads == IF kind = "table_lookup_first" THEN ReadsAddress(r) ELSE ~UsesDummy(r)
             a == IF reads THEN read_address(r) ELSE [rd |-> r, addr |-> Dummy]
         IN  IF kind = "table_lookup_first" /\ ~has
             THEN [pkt |-> p, rd |-> [r EXCEPT !.err = "AttributeError"]]
             ELSE IF ~Ok(a.rd) THEN [pkt |-> p, rd |-> a.rd]
             ELSE IF ~has THEN [pkt |-> p, rd |-> [a.rd EXCEPT !.err = "AttributeError"]]
             ELSE TableLoop(SetAttr(p, "system_address", Append(p.f["system_address"], a.addr)),
                            a.rd, kind, i + 1)

\* one read of decode_payload and the assignment of its value:
\* [pkt |-> the packet afterwards, rd |-> the reader afterwards]
ReadField(p, r, fld) ==
    LET name == fld[1]
        kind == fld[2]
    IN  IF kind = "address"
        THEN LET a == read_address(r)
             IN  [pkt |-> IF Ok(a.rd) THEN SetAttr(p, name, a.addr) ELSE p, rd |-> a.rd]
        ELSE IF kind = "string"
        THEN LET r1 == Take(r, 2)
                 r2 == Take(r1, read_short(Peek(r, 2)))
             IN  IF ~Ok(r2) THEN [pkt |-> p, rd |-> r2]
                 ELSE LET b == Peek(r1, read_short(Peek(r, 2)))
                      IN  IF \E k \in 1..Len(b) : b[k] >= 128
                          THEN [pkt |-> p, rd |-> [r2 EXCEPT !.err = "UnicodeDecodeError"]]
                          ELSE [pkt |-> SetAttr(p, name, [k \in 1..Len(b) |-> chr(b[k])]),
                                rd |-> r2]
        ELSE IF kind = "skip_short"
        THEN [pkt |-> p, rd |-> Take(r, 2)]
        ELSE IF kind \in {"table_lookup_first", "table_value_first"}
        THEN TableLoop(p, r, kind, 0)
        ELSE IF kind = "rest"
        THEN LET n == Len(r.buf) - r.off
             IN  [pkt |-> SetAttr(p, name, n + MTU_OVERHEAD), rd |-> Take(r, n)]
        ELSE LET r1 == Take(r, FixedWidth(kind))
                 b == Peek(r, FixedWidth(kind))
             IN  IF ~Ok(r1) THEN [pkt |-> p, rd |-> r1]
                 ELSE [pkt |-> SetAttr(p, name,
                                   CASE kind = "byte" -> read_byte(b)
                                     [] kind = "short" -> read_short(b)
                                     [] kind = "long" -> read_long(b)
                                     [] kind = "bool" -> read_bool(b)
                                     [] kind = "magic" -> b),
                       rd |-> r1]

\* the reads of a decode_payload from read k on, stopping at the first error
RECURSIVE ReadFields(_, _, _, _)
ReadFields(p, r, layout, k) ==
    IF k > Len(layout) \/ ~Ok(r) THEN [pkt |-> p, rd |-> r]
    ELSE LET one == ReadField(p, r, layout[k])
         IN  ReadFields(one.pkt, one.rd, layout, k + 1)

\* Packet.decode into the packet p from a serializer wrapping buf
decode(p, buf) ==
    LET h == decode_header(PacketId(p.type), Reader(buf))
    IN  IF ~Ok(h) THEN [pkt |-> p, rd |-> h]
        ELSE ReadFields(p, h, decode_payload(p.type), 1)

----------------------------------------------------------------------------
(***************************************************************************)
(* Operations on handshake packets: a sender builds a packet and encodes   *)
(* it, a receiver creates a packet of some class and decodes the buffer    *)
(* into it.                                                                *)
(***************************************************************************)
Longs == {<<0, 0, 0, 1>>, <<4660, 22136, 39612, 57072>>}

Mtus == {0, 1492, 65535}

ProbeMtus == {46, 47, 100, 1492}

Responses == {<<>>, <<"M", "C", "P", "E", ";">>}

SomeAddresses ==
    { InternetAddress(Quad(<<10, 0, 0, 255>>), 19132, 4),
      InternetAddress(inet_ntop(<<254, 128>> \o Zeros(13) \o <<1>>), 65535, 6) }

Obj(type, f) == [type |-> type, f |-> f]

\* the packets a sender builds
Packets ==
    {Obj("AdvertiseSystem", [response |-> s]) : s \in Responses}
    \cup {Obj("ConnectedPing", [send_time |-> t]) : t \in Longs}
    \cup {Obj("ConnectedPong", [send_time |-> t, receive_time |-> u]) : t \in Longs, u \in Longs}
    \cup {Obj("ConnectionRequest", [client_id |-> c, send_time |-> t, use_security |-> b]) :
             c \in Longs, t \in {<<0, 0, 0, 1>>}, b \in BOOLEAN}
    \cup {Obj("DisconnectNotification", <<>>)}
    \cup {Obj("IncompatibleProtocolVersion", [protocol |-> v, server_id |-> c]) :
             v \in {6, 255}, c \in Longs}
    \cup {Obj("OpenConnectionReplyOne", [server_id |-> c, use_security |-> b, mtu_size |-> m]) :
             c \in Longs, b \in BOOLEAN, m \in Mtus}
    \cup {Obj("OpenConnectionReplyTwo",
              [server_id |-> c, client_address |-> a, mtu_size |-> m, use_security |-> b]) :
             c \in Longs, a \in SomeAddresses, m \in Mtus, b \in BOOLEAN}
    \cup {Obj("OpenConnectionRequestOne", [mtu_size |-> m]) : m \in ProbeMtus}
    \cup {Obj("OpenConnectionRequestOne", [protocol |-> 11, mtu_size |-> m]) : m \in ProbeMtus}
    \cup {Obj("OpenConnectionRequestTwo", [client_id |-> c, server_address |-> a, mtu_size |-> m]) :
             c \in Longs, a \in SomeAddresses, m \in Mtus}
    \cup {Obj(T, [send_time |-> t, client_id |-> c]) :
             T \in {"UnconnectedPing", "UnconnectedPingOpenConnections"},
             t \in Longs, c \in {0, 5, 255}}
    \cup {Obj("UnconnectedPong", [send_time |-> t, server_id |-> c, response |-> s]) :
             t \in {<<0, 0, 0, 1>>}, c \in Longs, s \in Responses}

Types == {p.type : p \in Packets}

\* the system addresses a sender lists, and its packets that carry them
TableLists ==
    LET a4 == InternetAddress(Quad(<<10, 0, 0, 255>>), 19132, 4)
        a6 == InternetAddress(inet_ntop(<<254, 128>> \o Zeros(13) \o <<1>>), 65535, 6)
    IN  {<<>>, <<a4>>, <<a6, a4>>, [k \in 1..SYSTEM_ADDRESS_COUNT |-> IF k = 3 THEN a6 ELSE a4]}

TablePackets ==
    {Obj("NewIncomingConnection",
         [address |-> InternetAddress(Quad(<<10, 0, 0, 255>>), 19132, 4),
          system_address |-> l, send_time |-> t[1], receive_time |-> t[2]]) :
        l \in TableLists,
        t \in {<<<<0, 0, 0, 1>>, <<4660, 22136, 39612, 57072>>>>,
               <<<<4660, 22136, 39612, 57072>>, <<0, 0, 0, 1>>>>}}

TableTypes == {"ConnectionRequestAccepted", "NewIncomingConnection"}

\* the bytes of each of them
Encoded == [p \in Packets \cup TablePackets |-> encode(p)]

\* a sender encodes a packet into a fresh serializer
Encode(p) ==
    /\ snd' = p
    /\ wire' = Encoded[p]
    /\ offset' = 0
    /\ err' = "none"
    /\ op' = [name |-> "encode", inst |-> p.type, arg |-> <<>>]
    /\ UNCHANGED <<packets, rcv>>

\* a receiver creates a packet
Create(type) ==
    /\ rcv' = IF Constructible(type) THEN New(type) ELSE rcv
    /\ err' = IF Constructible(type) THEN "none" ELSE "AttributeError"
    /\ op' = [name |-> "create", inst |-> type, arg |-> <<>>]
    /\ UNCHANGED <<packets, wire, offset, snd>>

\* the receiver decodes the buffer into its packet
Decode ==
    /\ rcv # NoObj
    /\ LET d == decode(rcv, wire)
       IN  /\ rcv' = d.pkt
           /\ offset' = d.rd.off
           /\ err' = d.rd.err
    /\ op' = [name |-> "decode", inst |-> rcv.type, arg |-> <<>>]
    /\ UNCHANGED <<packets, wire, snd>>

NextMsg ==
    \/ \E p \in Packets : Encode(p)
    \/ \E type \in Types : Create(type)
    \/ Decode

SpecMsg == Init /\ [][NextMsg]_vars

\* decodes into one packet instance
MaxDecodes == 2

\* the owner of a packet gives it an empty list: rcv.system_address = []
AssignTable ==
    /\ rcv # NoObj
    /\ rcv.type \in TableTypes
    /\ rcv' = SetAttr(rcv, "system_address", <<>>)
    /\ err' = "none"
    /\ op' = [name |-> "assign", inst |-> rcv.type, arg |-> <<>>]
    /\ UNCHANGED <<packets, wire, offset, snd>>

TableLen(p) == IF "system_address" \in DOMAIN p.f THEN Len(p.f["system_address"]) ELSE 0

NextTable ==
    \/ \E p \in TablePackets : Encode(p)
    \/ \E type \in TableTypes : Create(type)
    \/ AssignTable
    \/ (rcv # NoObj /\ TableLen(rcv) < MaxDecodes * SYSTEM_ADDRESS_COUNT) /\ Decode

SpecTable == Init /\ [][NextTable]_vars

\* the values a damaged byte of value b may take
Damaged(b) == {(b + 1) % 256, 255 - b}

\* the buffer of an encoded OpenConnectionRequestOne reaches the receiver with
\* the k-th of its 16 magic bytes changed (the magic follows the ID byte)
FlipMagic(k) ==
    /\ snd # NoObj
    /\ wire = Encoded[snd]
    /\ \E v \in Damaged(wire[1 + k]) : wire' = [wire EXCEPT ![1 + k] = v]
    /\ offset' = 0
    /\ err' = "none"
    /\ op' = [name |-> "flip", inst |-> snd.type, arg |-> <<k>>]
    /\ UNCHANGED <<packets, snd, rcv>>

\* probes between two peers, some of them damaged on the way
NextMagic ==
    \/ \E p \in Packets : p.type = "OpenConnectionRequestOne" /\ Encode(p)
    \/ Create("OpenConnectionRequestOne")
    \/ Decode
    \/ \E k \in 1..Len(MAGIC) : FlipMagic(k)

SpecMagic == Init /\ [][NextMagic]_vars

----------------------------------------------------------------------------
(***************************************************************************)
(* Datagrams a peer may send to the acknowledgment decoder: a header byte, *)
(* a declared record count, records, and possibly a truncated end.         *)
(***************************************************************************)
\* records of a crafted datagram before the repeated one
MaxRecs == 1
\* repetitions of the widest record at the end of a crafted datagram
MaxFill == 8
\* bytes cut off the end of a crafted datagram
MaxCut == 3

Rec1(tag, a) == <<tag>> \o write_triad_le(a)
Rec2(tag, a, b) == <<tag>> \o write_triad_le(a) \o write_triad_le(b)

HugeRecord == Rec2(RECORD_TYPE_SINGLE, 0, 1000000)

RecordTemplates ==
    { Rec2(RECORD_TYPE_SINGLE, 5, 7),
      HugeRecord,
      Rec2(RECORD_TYPE_SINGLE, 5, 3),
      Rec1(RECORD_TYPE_RANGE, 9),
      Rec2(RECORD_TYPE_RANGE, 0, 1000000),
      Rec1(RECORD_TYPE_SINGLE, 5) }

DeclaredCounts == {0, 1, MaxRecs + MaxFill, 65535}

RecordPrefixes == UNION {[1..n -> RecordTemplates] : n \in 0..MaxRecs}

CutEnd(b, c) == SubSeq(b, 1, Len(b) - Min(c, Len(b)))

Datagrams ==
    { CutEnd(<<id>> \o write_short(n) \o Concat(pre) \o Concat([k \in 1..m |-> HugeRecord]), c) :
        id \in {ACK_ID, NACK_ID}, n \in DeclaredCounts, pre \in RecordPrefixes,
        m \in 0..MaxFill, c \in 0..MaxCut }

\* the socket hands over a datagram of a peer; the class list holds what
\* earlier packets left in it
InitWire ==
    /\ packets \in {<<>>, <<7>>, <<7, 8>>}
    /\ wire \in Datagrams
    /\ offset = 0
    /\ err = "none"
    /\ op = NoOp
    /\ snd = NoObj
    /\ rcv = NoObj

NextWire == \E inst \in AckInst : AckDecode(inst)

SpecWire == InitWire /\ [][NextWire]_vars

----------------------------------------------------------------------------
(***************************************************************************)
(* Properties of the acknowledgment codec.                                 *)
(***************************************************************************)
\* the maximal runs of consecutive values of S, ascending, as <<tag, start, last>>
RECURSIVE RunsOf(_)
RunsOf(S) ==
    IF S = {} THEN <<>>
    ELSE LET a == CHOOSE x \in S : \A y \in S : x <= y
             b == CHOOSE x \in S : x >= a /\ (a..x) \subseteq S /\ (x + 1) \notin S
         IN  <<<<IF a = b THEN 1 ELSE 0, a, b>>>> \o RunsOf(S \ (a..b))

\* the records of a byte string read by the wire format: tag 1 and one
\* triad, or tag 0 and two triads; <<-1, -1, -1>> where the bytes are neither
RECURSIVE ParseRecords(_)
ParseRecords(b) ==
    IF b = <<>> THEN <<>>
    ELSE IF b[1] = 1 /\ Len(b) >= 4
    THEN <<<<1, read_triad_le(SubSeq(b, 2, 4)), read_triad_le(SubSeq(b, 2, 4))>>>>
         \o ParseRecords(SubSeq(b, 5, Len(b)))
    ELSE IF b[1] = 0 /\ Len(b) >= 7
    THEN <<<<0, read_triad_le(SubSeq(b, 2, 4)), read_triad_le(SubSeq(b, 5, 7))>>>>
         \o ParseRecords(SubSeq(b, 8, Len(b)))
    ELSE <<<<-1, -1, -1>>>>

\* C1 (as claimed): decoding the bytes of an encode into a packet of the same
\* ID completes without error and leaves exactly the encoded sequence numbers.
C1_RoundTrip ==
    (op.name = "decode" /\ snd.type = op.inst)
        => (err = "none" /\ Range(packets) = snd.seqs)

\* C3: encode writes the ID, a 2-byte count equal to the number of maximal
\* runs of the packet's values, and then exactly one record per maximal run in
\* ascending order (SINGLE for a run of one value, RANGE start..last otherwise),
\* whatever the order and the duplicates of the list.
C3_OneRecordPerRun ==
    op.name = "encode" =>
        LET runs == RunsOf(Range(op.arg))
        IN  /\ Len(wire) >= 3
            /\ wire[1] = AckId(op.inst)
            /\ read_short(SubSeq(wire, 2, 3)) = Len(runs)
            /\ ParseRecords(SubSeq(wire, 4, Len(wire))) = runs
            /\ (op.arg = <<>> => Len(wire) = 3)

\* C3 witness: an unsorted list with a duplicate, a run and a lone value was encoded
C3_Witness ==
    /\ op.name = "encode"
    /\ op.arg = <<131328, 2, 1, 2>>
    /\ ParseRecords(SubSeq(wire, 4, Len(wire))) = <<<<0, 1, 2>>, <<1, 131328, 131328>>>>

\* C6 (as claimed): an operation on one instance never changes the
\* sequence-number collection of the other instance.
C6_NoSharedState ==
    [][\A i \in AckInst : op'.inst # i => PacketsOf(i)' = PacketsOf(i)]_vars

\* C2: one decode never produces more than 4096 sequence numbers, whatever
\* count the datagram declares and whatever its records claim.
C2_TotalCap ==
    op.name = "decode" => (Len(packets) <= TOTAL_CAP /\ op.arg[1] <= TOTAL_CAP)

\* C2 witness: a datagram declaring 65535 records, with more huge ranges than
\* the cap allows, was decoded by the packet type it is addressed to
C2_Witness ==
    /\ op.name = "decode"
    /\ Len(wire) >= 3
    /\ wire[1] = AckId(op.inst)
    /\ read_short(SubSeq(wire, 2, 3)) = 65535
    /\ Len(wire) >= 3 + 8 * Len(HugeRecord)
    /\ SubSeq(wire, 4, 3 + 8 * Len(HugeRecord)) = Concat([k \in 1..8 |-> HugeRecord])

\* C7 (as claimed): a record claiming [start, end] with end - start > 512 is
\* expanded as start..start + 512.
C7_RangeExpanded ==
    \A tag \in {RECORD_TYPE_SINGLE, RECORD_TYPE_RANGE} :
        (/\ op.name = "decode"
         /\ wire = <<AckId(op.inst)>> \o write_short(1) \o Rec2(tag, 0, 1000000))
            => packets = [k \in 1..(RANGE_CAP + 1) |-> k - 1]

\* C14 (as claimed): a datagram that ends before its declared record count
\* is reached, even in the middle of a record, is decoded without a
\* BufferUnderrun.
C14_StopsAtBufferEnd ==
    (/\ op.name = "decode"
     /\ Len(wire) >= 3
     /\ wire[1] = AckId(op.inst))
        => err # "BufferUnderrun"

----------------------------------------------------------------------------
(***************************************************************************)
(* Properties of the address codec.                                        *)
(***************************************************************************)
\* C8: read_address on the bytes of write_address returns an address equal in
\* ip, port and version, and consumes exactly the bytes written.
C8_AddressRoundTrip ==
    (op.name = "read_address" /\ snd # NoObj) =>
        /\ err = "none"
        /\ rcv # NoObj
        /\ AddressEq(rcv, snd)
        /\ offset = Len(wire)
        /\ Len(wire) = IF snd.version = 4 THEN 7 ELSE 29

\* C8 witnesses: an IPv4 and an IPv6 address went through write and read
C8_Witness ==
    /\ op.name = "read_address"
    /\ snd # NoObj
    /\ snd.version = 6
    /\ snd.ip = <<"2", "0", "0", "1", ":", "d", "b", "8", ":", ":",
                  "f", "f", "0", "0", ":", "4", "2", ":", "8", "3", "2", "9">>
    /\ snd.port = 19132
    /\ wire[4] * 256 + wire[5] = 19132

\* C12: read_address on a buffer whose first byte is neither 4 nor 6 fails
\* with UnknownAddressVersion, after that one byte, and returns no address.
C12_UnknownVersion ==
    (op.name = "read_address" /\ Len(wire) >= 1 /\ wire[1] \notin {4, 6}) =>
        /\ err = "UnknownAddressVersion"
        /\ rcv = NoObj
        /\ offset = 1

\* C12 witness: a buffer of version 255 followed by 28 bytes was read
C12_Witness ==
    /\ op.name = "read_address"
    /\ wire = <<255>> \o Zeros(28)
    /\ err = "UnknownAddressVersion"

----------------------------------------------------------------------------
(***************************************************************************)
(* Properties of the handshake messages.                                   *)
(***************************************************************************)
\* the attributes of the sender's packet are those of the receiver's, with
\* the same values (the receiver also holds the magic it read)
SameFields ==
    /\ (DOMAIN rcv.f) \ {"magic"} = DOMAIN snd.f
    /\ \A n \in DOMAIN snd.f : rcv.f[n] = snd.f[n]

\* C4 (as claimed): an OpenConnectionRequestOne with mtu_size >= 46, encoded
\* and then decoded, yields the same mtu_size and the same protocol.
C4_MtuRoundTrip ==
    (/\ op.name = "decode"
     /\ snd.type = "OpenConnectionRequestOne"
     /\ rcv.type = "OpenConnectionRequestOne"
     /\ GetAttr(snd, "mtu_size") >= MTU_OVERHEAD)
        => /\ err = "none"
           /\ "mtu_size" \in DOMAIN rcv.f
           /\ rcv.f["mtu_size"] = snd.f["mtu_size"]
           /\ GetAttr(rcv, "protocol") = GetAttr(snd, "protocol")

\* C5 (as claimed): decoding a non-empty buffer whose first byte is not the
\* ID of the packet's type fails with UnexpectedPacketId and changes no field
\* of the packet.
C5_HeaderValidation ==
    [][(/\ op'.name = "decode"
        /\ rcv # NoObj
        /\ Len(wire) >= 1
        /\ wire[1] # PacketId(rcv.type))
           => (err' = "UnexpectedPacketId" /\ rcv' = rcv)]_vars

\* C9 (as claimed): an UnconnectedPing, encoded and then decoded, yields the
\* same send_time, a valid magic and the same client_id, without error.
C9_PingRoundTrip ==
    (/\ op.name = "decode"
     /\ snd.type = "UnconnectedPing"
     /\ rcv.type = "UnconnectedPing")
        => /\ err = "none"
           /\ is_valid(rcv)
           /\ SameFields

C10Types ==
    {"OpenConnectionReplyOne", "OpenConnectionRequestTwo", "OpenConnectionReplyTwo",
     "ConnectionRequest", "ConnectedPing", "ConnectedPong",
     "IncompatibleProtocolVersion", "UnconnectedPong"}

\* C10: for the eight fixed-layout messages, decode of the bytes of encode
\* completes, recovers every field, consumes the whole buffer and, for the
\* offline types, leaves is_valid() true.
C10_FixedLayoutRoundTrip ==
    (/\ op.name = "decode"
     /\ snd.type \in C10Types
     /\ rcv.type = snd.type)
        => /\ err = "none"
           /\ SameFields
           /\ offset = Len(wire)
           /\ (rcv.type \in OfflineTypes => ("magic" \in DOMAIN rcv.f /\ is_valid(rcv)))

\* C10 witness: an OpenConnectionReplyTwo carrying an IPv6 address and the
\* widest MTU went through encode and decode
C10_Witness ==
    /\ op.name = "decode"
    /\ snd.type = "OpenConnectionReplyTwo"
    /\ rcv.type = "OpenConnectionReplyTwo"
    /\ snd.f["client_address"].version = 6
    /\ snd.f["mtu_size"] = 65535
    /\ snd.f["use_security"]
    /\ rcv.f["client_address"].port = 65535
    /\ Len(wire) = 1 + 16 + 8 + 29 + 2 + 1

\* C11 (as claimed): an OpenConnectionRequestOne that is encoded and decoded
\* has is_valid() true; with one of the 16 magic bytes of the buffer changed
\* before decoding, decode completes and is_valid() is false.
C11_MagicValidity ==
    (/\ op.name = "decode"
     /\ snd.type = "OpenConnectionRequestOne"
     /\ rcv.type = "OpenConnectionRequestOne")
        => IF wire = Encoded[snd]
           THEN is_valid(rcv)
           ELSE err = "none" /\ ~is_valid(rcv)

\* C13 (as claimed): the ID byte that encode writes belongs to no other
\* concrete class, so the decode_header of every other class rejects the
\* buffer; UnconnectedPingOpenConnections writes 0x02.
C13_DistinctIds ==
    op.name = "encode" =>
        /\ wire[1] = PacketId(op.inst)
        /\ \A T \in ConcreteTypes \ {op.inst} :
               /\ PacketId(T) # wire[1]
               /\ ~Ok(decode_header(PacketId(T), Reader(wire)))
        /\ (op.inst = "UnconnectedPingOpenConnections"
               => wire[1] = UNCONNECTED_PING_OPEN_CONNECTIONS)

\* C15 (as claimed): after a decode of the bytes of a NewIncomingConnection or
\* ConnectionRequestAccepted, also a repeated one into the same instance, the
\* packet's system_address holds SYSTEM_ADDRESS_COUNT entries, the k addresses of
\* the buffer in order and then dummies, and the two times are the last 16
\* bytes of the buffer.
C15_TableSize ==
    (/\ op.name = "decode"
     /\ rcv.type \in TableTypes
     /\ snd.type = rcv.type
     /\ wire = Encoded[snd])
        => /\ err = "none"
           /\ "system_address" \in DOMAIN rcv.f
           /\ LET table == rcv.f["system_address"]
                  sent == snd.f["system_address"]
              IN  /\ Len(table) = SYSTEM_ADDRESS_COUNT
                  /\ \A i \in 1..SYSTEM_ADDRESS_COUNT :
                         table[i] = IF i <= Len(sent) THEN sent[i] ELSE Dummy
           /\ rcv.f["send_time"] = read_long(SubSeq(wire, Len(wire) - 15, Len(wire) - 8))
           /\ rcv.f["receive_time"] = read_long(SubSeq(wire, Len(wire) - 7, Len(wire)))

====
